---------------------------- MODULE Spec2Model ----------------------------
(***************************************************************************)
(* A model of calc5.cc: the Lexer, the recursive-descent Interpreter and   *)
(* the read loop of main.                                                  *)
(*                                                                         *)
(* A line of text is a sequence of one-character strings.  _pos keeps the  *)
(* 0-based value it has in the code, so the character it addresses is      *)
(* text[_pos + 1].  The recursion of expression/term/factor is an explicit *)
(* call stack of frames; every frame has the position (pc) the function    *)
(* has reached and its locals.  An exception in flight is the field exc of *)
(* the interpreter; the step that throws unwinds the stack.                *)
(***************************************************************************)
EXTENDS Integers, Sequences, FiniteSets, TLC

VARIABLES cin,      \* the lines not yet read from standard input
          cinfail,  \* failbit of cin: a getline found no line to read
          mpc,      \* the position of main
          text,     \* main's string text, which the Lexer refers to as _text
          lexer,    \* the Lexer object: _pos, _current_char
          interp,   \* the Interpreter object, its call stack and return value
          cout,     \* what main has written to standard output, one item a line
          cerr      \* what has been written to standard error, in order

vars == <<cin, cinfail, mpc, text, lexer, interp, cout, cerr>>

---------------------------------------------------------------------------
(* Characters *)

\* The sentinel '\0' that _current_char holds at the end of the input.
NUL == "<NUL>"

\* What a read outside the string yields: the behaviour is undefined.
INDETERMINATE == "<indeterminate>"

Digits == <<"0", "1", "2", "3", "4", "5", "6", "7", "8", "9">>

isdigit(c) == \E i \in 1..10 : Digits[i] = c

DigitValue(c) == (CHOOSE i \in 1..10 : Digits[i] = c) - 1

\* A faulty variant of isspace: only the space is a blank.
isspace_space_only(c) == c = " "

\* The characters for which isspace holds in the "C" locale.
isspace(c) == c \in {" ", "\t", "\n", "\r", "\f", "<VT>"}

---------------------------------------------------------------------------
(* Tokens *)

TOKENTYPE == {"ENDOFFILE", "INTEGER", "PLUS", "MINUS", "MUL", "DIV",
              "LPAREN", "RPAREN"}

Token(t, v) == [type |-> t, value |-> v]

\* The Interpreter's _current_token before its constructor has run.
NoToken == [type |-> "NONE", value |-> 0]

\* No exception in flight.
NoExc == [type |-> "none", msg |-> <<>>, dangling |-> FALSE]

\* throw(out.str().c_str()): a const char* into the buffer of the temporary
\* string out.str(), which is destroyed at the end of the throw expression.
ThrowStream(m) == [type |-> "const char*", msg |-> m, dangling |-> TRUE]

\* throw("..."): a const char* to a string literal.
ThrowLiteral(m) == [type |-> "const char*", msg |-> m, dangling |-> FALSE]

---------------------------------------------------------------------------
(* std::stol on a non-empty run of digits *)

\* LONG_MAX of a 64-bit long, 9223372036854775807, digit by digit.
LongMaxDigits == <<9, 2, 2, 3, 3, 7, 2, 0, 3, 6, 8, 5, 4, 7, 7, 5, 8, 0, 7>>

RECURSIVE StripZeros(_)
StripZeros(ds) ==
    IF Len(ds) > 1 /\ ds[1] = 0 THEN StripZeros(Tail(ds)) ELSE ds

RECURSIVE DigitsGreater(_, _)
\* ds > es for two digit sequences of the same length.
DigitsGreater(ds, es) ==
    IF ds = <<>> THEN FALSE
    ELSE IF ds[1] # es[1] THEN ds[1] > es[1]
    ELSE DigitsGreater(Tail(ds), Tail(es))

\* The value of the run does not fit a long: stol throws std::out_of_range.
OutOfRange(run) ==
    LET ds == StripZeros([i \in 1..Len(run) |-> DigitValue(run[i])])
    IN  \/ Len(ds) > Len(LongMaxDigits)
        \/ Len(ds) = Len(LongMaxDigits) /\ DigitsGreater(ds, LongMaxDigits)

RECURSIVE DecimalValue(_)
DecimalValue(run) ==
    IF run = <<>> THEN 0
    ELSE 10 * DecimalValue(SubSeq(run, 1, Len(run) - 1))
         + DigitValue(run[Len(run)])

stol(run) ==
    IF OutOfRange(run)
    THEN [value |-> 0,
          exc |-> [type |-> "std::out_of_range", msg |-> <<"stol">>,
                   dangling |-> FALSE]]
    ELSE [value |-> DecimalValue(run), exc |-> NoExc]

---------------------------------------------------------------------------
(* Lexer *)

\* Lexer::Lexer.  _text[0] of an empty string is the terminating '\0'.
LexerInit(txt) ==
    [_pos |-> 0,
     _current_char |-> IF Len(txt) = 0 THEN NUL ELSE txt[1]]

\* A faulty variant of advance: the sentinel is set one character early.
advance_early(txt, lx) ==
    LET p == lx._pos + 1
    IN  IF p >= Len(txt) - 1
        THEN [_pos |-> p, _current_char |-> NUL]
        ELSE [_pos |-> p, _current_char |-> txt[p + 1]]

\* Lexer::advance.  _text.length() - 1 is unsigned: for an empty string it
\* is the largest size_t, the test fails and _text[_pos] is read outside
\* the string.
advance(txt, lx) ==
    LET p == lx._pos + 1
    IN  IF Len(txt) = 0
        THEN [_pos |-> p, _current_char |-> INDETERMINATE]
        ELSE IF p > Len(txt) - 1
        THEN [_pos |-> p, _current_char |-> NUL]
        ELSE [_pos |-> p, _current_char |-> txt[p + 1]]

RECURSIVE skip_whitespace(_, _)
skip_whitespace(txt, lx) ==
    IF lx._current_char # NUL /\ isspace(lx._current_char)
    THEN skip_whitespace(txt, advance(txt, lx))
    ELSE lx

RECURSIVE CollectDigits(_, _, _)
\* The loop of Lexer::integer: the cursor after the run, and the run.
CollectDigits(txt, lx, result) ==
    IF lx._current_char # NUL /\ isdigit(lx._current_char)
    THEN CollectDigits(txt, advance(txt, lx),
                       Append(result, lx._current_char))
    ELSE [lexer |-> lx, result |-> result]

\* Lexer::integer: the cursor is past the run also when stol throws.
integer(txt, lx) ==
    LET r == CollectDigits(txt, lx, <<>>)
        v == stol(r.result)
    IN  [lexer |-> r.lexer, value |-> v.value, exc |-> v.exc]

\* The single-character tokens, with the character's code as the value.
SingleChar(c) ==
    CASE c = "*" -> Token("MUL", 42)
      [] c = "/" -> Token("DIV", 47)
      [] c = "+" -> Token("PLUS", 43)
      [] c = "-" -> Token("MINUS", 45)
      [] c = "(" -> Token("LPAREN", 40)
      [] c = ")" -> Token("RPAREN", 41)
      [] OTHER   -> NoToken

\* A faulty variant of EndOfInput: the cursor is advanced as for a one-character
\* token.
EndOfInput_advancing(txt, lx) ==
    [lexer |-> advance(txt, lx), token |-> Token("ENDOFFILE", 0),
     exc |-> NoExc]

\* Lines 167-169 of get_next_token: the loop is over, the cursor stays.
EndOfInput(txt, lx) ==
    [lexer |-> lx, token |-> Token("ENDOFFILE", 0), exc |-> NoExc]

RECURSIVE get_next_token(_, _)
\* Lexer::get_next_token: the cursor after the call, and either the token
\* returned (which the call has also written to cerr) or the exception.
get_next_token(txt, lx) ==
    LET c == lx._current_char
    IN  IF c # NUL
        THEN IF isspace(c)
             THEN get_next_token(txt, skip_whitespace(txt, lx))
             ELSE IF isdigit(c)
             THEN LET r == integer(txt, lx)
                  IN  [lexer |-> r.lexer,
                       token |-> IF r.exc = NoExc
                                 THEN Token("INTEGER", r.value) ELSE NoToken,
                       exc |-> r.exc]
             ELSE IF SingleChar(c) # NoToken
             THEN [lexer |-> advance(txt, lx), token |-> SingleChar(c),
                   exc |-> NoExc]
             ELSE [lexer |-> lx, token |-> NoToken,
                   exc |-> ThrowStream(<<"Error parsing input. Got: ", c>>)]
        ELSE EndOfInput(txt, lx)

---------------------------------------------------------------------------
(* Interpreter *)

\* A frame of the call stack: the function, the statement it has reached,
\* its local result and the type of its local token.
Frame(fn, pc) == [fn |-> fn, pc |-> pc, result |-> 0, token |-> "NONE"]

\* The Interpreter before its constructor has run.
NoInterp == [_current_token |-> NoToken, stack |-> <<>>, ret |-> 0,
             exc |-> NoExc]

Top(ip) == ip.stack[Len(ip.stack)]

At(ip, fn, pc) ==
    /\ ip.exc = NoExc
    /\ ip.stack # <<>>
    /\ Top(ip).fn = fn
    /\ Top(ip).pc = pc

\* The stack with its top frame changed to f.
SetTop(ip, f) == [ip.stack EXCEPT ![Len(ip.stack)] = f]

Pop(ip) == SubSeq(ip.stack, 1, Len(ip.stack) - 1)

\* A function returns v to its caller.
Return(lx, ip, v) ==
    [lexer |-> lx, interp |-> [ip EXCEPT !.stack = Pop(ip), !.ret = v],
     printed |-> <<>>]

\* A throw: the exception is in flight and the stack is unwound to main.
Throw(lx, ip, e) ==
    [lexer |-> lx, interp |-> [ip EXCEPT !.stack = <<>>, !.exc = e],
     printed |-> <<>>]

\* Interpreter::Interpreter: the first token becomes the lookahead.
InterpreterInit(txt, lx) ==
    LET r == get_next_token(txt, lx)
    IN  IF r.exc = NoExc
        THEN [lexer |-> r.lexer,
              interp |-> [NoInterp EXCEPT !._current_token = r.token],
              printed |-> <<r.token>>]
        ELSE Throw(r.lexer, NoInterp, r.exc)

\* A faulty variant of eat: on a match the lookahead stays as it is.
eat_peek(txt, lx, ip, token_type) ==
    IF ip._current_token.type = token_type
    THEN [lexer |-> lx, interp |-> ip, printed |-> <<>>]
    ELSE Throw(lx, ip,
               ThrowStream(<<"Error parsing input. Wanted: ", token_type>>))

\* Interpreter::eat.  On a match the lookahead is the next token; on a
\* mismatch the message names the wanted type only.
eat(txt, lx, ip, token_type) ==
    IF ip._current_token.type = token_type
    THEN LET r == get_next_token(txt, lx)
         IN  IF r.exc = NoExc
             THEN [lexer |-> r.lexer,
                   interp |-> [ip EXCEPT !._current_token = r.token],
                   printed |-> <<r.token>>]
             ELSE Throw(r.lexer, ip, r.exc)
    ELSE Throw(lx, ip,
               ThrowStream(<<"Error parsing input. Wanted: ", token_type>>))

\* After an eat that did not throw: the state with the stack set to st.
Continue(r, st) ==
    IF r.interp.exc = NoExc
    THEN [r EXCEPT !.interp.stack = st]
    ELSE r

\* The call of callee from the top frame, which goes on at pc.
Call(ip, pc, token, callee) ==
    Append(SetTop(ip, [Top(ip) EXCEPT !.pc = pc, !.token = token]),
           Frame(callee, "begin"))

\* A faulty variant of Quotient: the quotient rounded down.
Quotient_floor(a, b) == a \div b

\* The quotient of the built-in / on long: truncated toward zero.
Quotient(a, b) ==
    LET abs(x) == IF x < 0 THEN -x ELSE x
        q == abs(a) \div abs(b)
    IN  IF (a < 0) = (b < 0) THEN q ELSE -q

\* A faulty variant of expression_begin: the first operand is a factor.
expression_begin_factor(txt, lx, ip) ==
    [lexer |-> lx,
     interp |-> [ip EXCEPT !.stack = Call(ip, "fold", "NONE", "factor")],
     printed |-> <<>>]

\* expression, line 224: long result = term();
expression_begin(txt, lx, ip) ==
    [lexer |-> lx,
     interp |-> [ip EXCEPT !.stack = Call(ip, "fold", "NONE", "term")],
     printed |-> <<>>]

\* A faulty variant of expression_fold: the operands of - are exchanged.
expression_fold_swapped(txt, lx, ip) ==
    LET f == Top(ip)
        v == CASE f.token = "NONE"  -> ip.ret
               [] f.token = "PLUS"  -> f.result + ip.ret
               [] f.token = "MINUS" -> ip.ret - f.result
    IN  [lexer |-> lx,
         interp |-> [ip EXCEPT
                       !.stack = SetTop(ip, [f EXCEPT !.result = v,
                                                      !.pc = "while"])],
         printed |-> <<>>]

\* expression, lines 224, 231, 234: the value of term() goes into result.
expression_fold(txt, lx, ip) ==
    LET f == Top(ip)
        v == CASE f.token = "NONE"  -> ip.ret
               [] f.token = "PLUS"  -> f.result + ip.ret
               [] f.token = "MINUS" -> f.result - ip.ret
    IN  [lexer |-> lx,
         interp |-> [ip EXCEPT
                       !.stack = SetTop(ip, [f EXCEPT !.result = v,
                                                      !.pc = "while"])],
         printed |-> <<>>]

\* A faulty variant of expression_while: the right operand is a whole expression, so
\* that a chain is grouped from the right.
expression_while_right(txt, lx, ip) ==
    LET t == ip._current_token.type
    IN  IF t = "PLUS" \/ t = "MINUS"
        THEN Continue(eat(txt, lx, ip, t), Call(ip, "fold", t, "expression"))
        ELSE Return(lx, ip, Top(ip).result)

\* expression, lines 226-236: the loop test, the eat and the call of term.
\* Line 238 when the lookahead is neither PLUS nor MINUS.
expression_while(txt, lx, ip) ==
    LET t == ip._current_token.type
    IN  IF t = "PLUS" \/ t = "MINUS"
        THEN Continue(eat(txt, lx, ip, t), Call(ip, "fold", t, "term"))
        ELSE Return(lx, ip, Top(ip).result)

\* term, line 270: long result = factor();
term_begin(txt, lx, ip) ==
    [lexer |-> lx,
     interp |-> [ip EXCEPT !.stack = Call(ip, "fold", "NONE", "factor")],
     printed |-> <<>>]

\* A faulty variant of term_fold: a zero divisor is passed over instead of thrown.
term_fold_unchecked(txt, lx, ip) ==
    LET f == Top(ip)
        rhs == ip.ret
        v == CASE f.token = "NONE" -> ip.ret
               [] f.token = "MUL"  -> f.result * ip.ret
               [] f.token = "DIV"  -> IF rhs = 0 THEN f.result
                                      ELSE Quotient(f.result, rhs)
    IN  [lexer |-> lx,
         interp |-> [ip EXCEPT
                       !.stack = SetTop(ip, [f EXCEPT !.result = v,
                                                      !.pc = "while"])],
         printed |-> <<>>]

\* term, lines 270, 277, 280-284: the value of factor() goes into result;
\* a zero divisor throws before the division.
term_fold(txt, lx, ip) ==
    LET f == Top(ip)
        rhs == ip.ret
    IN  IF f.token = "DIV" /\ rhs = 0
        THEN Throw(lx, ip, ThrowLiteral(<<"Division by zero">>))
        ELSE LET v == CASE f.token = "NONE" -> ip.ret
                        [] f.token = "MUL"  -> f.result * ip.ret
                        [] f.token = "DIV"  -> Quotient(f.result, rhs)
             IN  [lexer |-> lx,
                  interp |-> [ip EXCEPT
                                !.stack = SetTop(ip, [f EXCEPT !.result = v,
                                                               !.pc = "while"])],
                  printed |-> <<>>]

\* term, lines 272-286 and 288.
term_while(txt, lx, ip) ==
    LET t == ip._current_token.type
    IN  IF t = "MUL" \/ t = "DIV"
        THEN Continue(eat(txt, lx, ip, t), Call(ip, "fold", t, "factor"))
        ELSE Return(lx, ip, Top(ip).result)

\* factor, lines 256-259 and 263-264.
factor_begin(txt, lx, ip) ==
    LET token == ip._current_token
    IN  IF token.type = "LPAREN"
        THEN Continue(eat(txt, lx, ip, "LPAREN"),
                      Call(ip, "paren", "LPAREN", "expression"))
        ELSE LET r == eat(txt, lx, ip, "INTEGER")
             IN  IF r.interp.exc = NoExc
                 THEN [Return(r.lexer, r.interp, token.value)
                         EXCEPT !.printed = r.printed]
                 ELSE r

\* factor, lines 259-261: result = expression(); eat(RPAREN); return.
factor_paren(txt, lx, ip) ==
    LET result == ip.ret
        r == eat(txt, lx, ip, "RPAREN")
    IN  IF r.interp.exc = NoExc
        THEN [Return(r.lexer, r.interp, result) EXCEPT !.printed = r.printed]
        ELSE r

\* The statement the top frame is at, executed.
Step(txt, lx, ip) ==
    CASE At(ip, "expression", "begin") -> expression_begin(txt, lx, ip)
      [] At(ip, "expression", "fold")  -> expression_fold(txt, lx, ip)
      [] At(ip, "expression", "while") -> expression_while(txt, lx, ip)
      [] At(ip, "term", "begin")       -> term_begin(txt, lx, ip)
      [] At(ip, "term", "fold")        -> term_fold(txt, lx, ip)
      [] At(ip, "term", "while")       -> term_while(txt, lx, ip)
      [] At(ip, "factor", "begin")     -> factor_begin(txt, lx, ip)
      [] At(ip, "factor", "paren")     -> factor_paren(txt, lx, ip)

RECURSIVE RunToEnd(_, _, _, _)
\* The steps from a state on, until expression() has returned or thrown:
\* the value returned, the exception, the cursor, the lookahead and the
\* tokens written to cerr.
RunToEnd(txt, lx, ip, printed) ==
    IF ip.exc # NoExc \/ ip.stack = <<>>
    THEN [ret |-> IF ip.exc = NoExc THEN ip.ret ELSE 0,
          exc |-> ip.exc, printed |-> printed]
    ELSE LET r == Step(txt, lx, ip)
         IN  RunToEnd(txt, r.lexer, r.interp, printed \o r.printed)

\* Lines 298-300 for a line txt: a Lexer and an Interpreter constructed
\* over it and expression() called, up to its return or a throw.
Evaluate(txt) ==
    LET c == InterpreterInit(txt, LexerInit(txt))
    IN  IF c.interp.exc # NoExc
        THEN [ret |-> 0, exc |-> c.interp.exc, printed |-> c.printed]
        ELSE RunToEnd(txt, c.lexer,
                      [c.interp EXCEPT
                         !.stack = <<Frame("expression", "begin")>>],
                      c.printed)

---------------------------------------------------------------------------
(* The input lines of the model *)

\* The longest line built from every combination of the characters below.
MaxLen == 3

\* The largest operand of the three-operand lines.
MaxVal == 3

\* The calls of get_next_token a client of a Lexer makes.
MaxCalls == 7

Alphabet == {"0", "2", "3", "+", "-", "*", "/", "(", ")", " ", "$"}

Strings == UNION {[1..k -> Alphabet] : k \in 0..MaxLen}

RECURSIVE Render(_)
\* The decimal digits of n >= 0.
Render(n) ==
    IF n < 10 THEN <<Digits[n + 1]>>
    ELSE Render(n \div 10) \o <<Digits[(n % 10) + 1]>>

Operators == {"+", "-", "*", "/"}

\* a op b op c, as written in the examples.
Chain(a, o1, b, o2, c) ==
    Render(a) \o <<" ", o1, " ">> \o Render(b) \o <<" ", o2, " ">> \o Render(c)

\* (a op b) op c
GroupLeft(a, o1, b, o2, c) ==
    <<"(">> \o Render(a) \o <<" ", o1, " ">> \o Render(b) \o <<")", " ", o2, " ">>
    \o Render(c)

\* a op (b op c)
GroupRight(a, o1, b, o2, c) ==
    Render(a) \o <<" ", o1, " ", "(">> \o Render(b) \o <<" ", o2, " ">>
    \o Render(c) \o <<")">>

Operands == 0..MaxVal

ThreeOperandLines ==
    UNION { {Chain(a, o1, b, o2, c), GroupLeft(a, o1, b, o2, c),
             GroupRight(a, o1, b, o2, c)} :
            <<a, o1, b, o2, c>> \in
              Operands \X Operators \X Operands \X Operators \X Operands }

Ex_3plus5         == <<"3", "+", "5">>
Ex_LeftAssoc      == <<"7", " ", "-", " ", "3", " ", "+", " ", "2", " ", "-", " ", "1">>
Ex_Paren          == <<"7", " ", "*", " ", "(", "2", " ", "+", " ", "3", ")">>
Ex_DivChain       == <<"1", "0", " ", "/", " ", "2", " ", "/", " ", "5">>
Ex_Precedence     == <<"1", "4", " ", "+", " ", "2", " ", "*", " ", "3", " ", "-",
                       " ", "6", " ", "/", " ", "2">>
Ex_DivZero        == <<"5", " ", "/", " ", "0">>
Ex_Lexical        == <<"3", " ", "$", " ", "4">>
Ex_Unbalanced     == <<"(", "1", " ", "+", " ", "2">>
Ex_Trailing       == <<"(", "1", ")", " ", "2">>
Ex_Nested         == <<"(", "(", "2", "+", "1", ")", "*", "(", "7", "-", "9", ")", ")",
                       "/", "2">>
Ex_Tabs           == <<"\t", "1", "2", "\t", "*", " ", "\t", "(", "3", "\t", "-", "1",
                       ")", " ", "\t">>
Ex_TabSeparated   == <<"1", "\t", " ", "2">>
Ex_LongMax        == <<"9", "2", "2", "3", "3", "7", "2", "0", "3", "6", "8", "5",
                       "4", "7", "7", "5", "8", "0", "8">>
Ex_TwentyNines    == [i \in 1..20 |-> "9"]
Ex_TooLargeDivZero == <<"1", "/", "0", "/">> \o Ex_TwentyNines
Ex_NegQuotient    == <<"(", "1", " ", "-", " ", "8", ")", " ", "/", " ", "2">>

Examples ==
    {Ex_3plus5, Ex_LeftAssoc, Ex_Paren, Ex_DivChain, Ex_Precedence,
     Ex_DivZero, Ex_Lexical, Ex_Unbalanced, Ex_Trailing, Ex_Nested, Ex_Tabs,
     Ex_TabSeparated, Ex_LongMax, Ex_TwentyNines, Ex_TooLargeDivZero,
     Ex_NegQuotient}

Lines == Strings \cup ThreeOperandLines \cup Examples

---------------------------------------------------------------------------
(* main *)

\* Before a Lexer is constructed, and after it is destroyed.
NoLexer == [_pos |-> 0, _current_char |-> NUL]

Prompt == [kind |-> "prompt", value |-> 0]

Result(v) == [kind |-> "result", value |-> v]

\* cerr << token << endl
CerrToken(t) == [line |-> "Token", type |-> t.type, value |-> t.value,
                 text |-> <<>>]

\* cerr << error << endl
CerrError(m) == [line |-> "error", type |-> "NONE", value |-> 0, text |-> m]

CerrTokens(ts) == [i \in 1..Len(ts) |-> CerrToken(ts[i])]

\* What reading through the thrown pointer can yield: the message, or
\* whatever is in the freed buffer when the pointer dangles.
Readable(e) ==
    IF e.dangling THEN {e.msg, <<INDETERMINATE>>} ELSE {e.msg}

\* The state of the Lexer and the Interpreter after a step r of theirs.
Apply(r) ==
    /\ lexer' = r.lexer
    /\ interp' = r.interp
    /\ cerr' = cerr \o CerrTokens(r.printed)

\* Line 293: while(cin)
MainWhile ==
    /\ mpc = "while"
    /\ mpc' = IF cinfail THEN "exit" ELSE "getline"
    /\ UNCHANGED <<cin, cinfail, text, lexer, interp, cout, cerr>>

\* Lines 294-295: the prompt and getline, which leaves text empty and sets
\* failbit when no line is left.
MainGetline ==
    /\ mpc = "getline"
    /\ cout' = Append(cout, Prompt)
    /\ IF cin # <<>>
       THEN /\ text' = Head(cin)
            /\ cin' = Tail(cin)
            /\ cinfail' = FALSE
       ELSE /\ text' = <<>>
            /\ cin' = cin
            /\ cinfail' = TRUE
    /\ mpc' = "construct"
    /\ UNCHANGED <<lexer, interp, cerr>>

\* Lines 298-299: Lexer lexer(text); Interpreter interpreter(lexer);
MainConstruct ==
    /\ mpc = "construct"
    /\ Apply(InterpreterInit(text, LexerInit(text)))
    /\ mpc' = "call"
    /\ UNCHANGED <<cin, cinfail, text, cout>>

\* Line 300: the call interpreter.expression()
MainCallExpression ==
    /\ mpc = "call"
    /\ interp.exc = NoExc
    /\ interp' = [interp EXCEPT !.stack = <<Frame("expression", "begin")>>]
    /\ mpc' = "running"
    /\ UNCHANGED <<cin, cinfail, text, lexer, cout, cerr>>

\* Lines 300-302: expression() has returned; cout << result << endl, and
\* the Interpreter and the Lexer are destroyed at the end of the block.
MainPrint ==
    /\ mpc = "running"
    /\ interp.exc = NoExc
    /\ interp.stack = <<>>
    /\ cout' = Append(cout, Result(interp.ret))
    /\ lexer' = NoLexer
    /\ interp' = NoInterp
    /\ mpc' = "while"
    /\ UNCHANGED <<cin, cinfail, text, cerr>>

\* Lines 303-306: catch(const char* error): cerr << error << endl; break;
MainCatch ==
    /\ mpc \in {"call", "running"}
    /\ interp.exc.type = "const char*"
    /\ \E m \in Readable(interp.exc) : cerr' = Append(cerr, CerrError(m))
    /\ lexer' = NoLexer
    /\ interp' = NoInterp
    /\ mpc' = "exit"
    /\ UNCHANGED <<cin, cinfail, text, cout>>

\* No handler of main matches std::out_of_range: std::terminate.
MainTerminate ==
    /\ mpc \in {"call", "running"}
    /\ interp.exc.type = "std::out_of_range"
    /\ mpc' = "terminate"
    /\ UNCHANGED <<cin, cinfail, text, lexer, interp, cout, cerr>>

---------------------------------------------------------------------------
(* The steps of the Interpreter, as actions *)

Running(fn, pc) == mpc = "running" /\ At(interp, fn, pc)

Unchanged == UNCHANGED <<cin, cinfail, mpc, text, cout>>

ExpressionBegin ==
    Running("expression", "begin") /\ Apply(expression_begin(text, lexer, interp))
    /\ Unchanged

ExpressionFold ==
    Running("expression", "fold") /\ Apply(expression_fold(text, lexer, interp))
    /\ Unchanged

ExpressionWhile ==
    Running("expression", "while") /\ Apply(expression_while(text, lexer, interp))
    /\ Unchanged

TermBegin ==
    Running("term", "begin") /\ Apply(term_begin(text, lexer, interp))
    /\ Unchanged

TermFold ==
    Running("term", "fold") /\ Apply(term_fold(text, lexer, interp))
    /\ Unchanged

TermWhile ==
    Running("term", "while") /\ Apply(term_while(text, lexer, interp))
    /\ Unchanged

FactorBegin ==
    Running("factor", "begin") /\ Apply(factor_begin(text, lexer, interp))
    /\ Unchanged

FactorParen ==
    Running("factor", "paren") /\ Apply(factor_paren(text, lexer, interp))
    /\ Unchanged

---------------------------------------------------------------------------
(* The program: main reads one line, then meets the end of the input *)

Init ==
    /\ cin \in {<<t>> : t \in Lines}
    /\ cinfail = FALSE
    /\ mpc = "while"
    /\ text = <<>>
    /\ lexer = NoLexer
    /\ interp = NoInterp
    /\ cout = <<>>
    /\ cerr = <<>>

Next ==
    \/ MainWhile
    \/ MainGetline
    \/ MainConstruct
    \/ MainCallExpression
    \/ MainPrint
    \/ MainCatch
    \/ MainTerminate
    \/ ExpressionBegin
    \/ ExpressionFold
    \/ ExpressionWhile
    \/ TermBegin
    \/ TermFold
    \/ TermWhile
    \/ FactorBegin
    \/ FactorParen

Spec == Init /\ [][Next]_vars

---------------------------------------------------------------------------
(* The program on an input of several lines *)

\* The most lines of an input.
MaxLines == 2

\* Lines that end in a value, in each of the errors, and the empty line.
LoopLines ==
    {Ex_3plus5, Ex_Paren, Ex_NegQuotient, Ex_DivZero, Ex_Lexical,
     Ex_Unbalanced, Ex_LongMax, <<>>}

LoopInputs == UNION {[1..k -> LoopLines] : k \in 1..MaxLines}

LoopInit ==
    /\ cin \in LoopInputs
    /\ cinfail = FALSE
    /\ mpc = "while"
    /\ text = <<>>
    /\ lexer = NoLexer
    /\ interp = NoInterp
    /\ cout = <<>>
    /\ cerr = <<>>

LoopSpec == LoopInit /\ [][Next]_vars

---------------------------------------------------------------------------
(* A client of a Lexer that calls get_next_token again and again *)

LexerInitState ==
    /\ text \in Lines
    /\ lexer = LexerInit(text)
    /\ mpc = "lexer"
    /\ cin = <<>>
    /\ cinfail = FALSE
    /\ interp = NoInterp
    /\ cout = <<>>
    /\ cerr = <<>>

\* One call of get_next_token: the token returned is the lookahead of the
\* client, and a throw ends the use of the Lexer.
LexerCall ==
    /\ mpc = "lexer"
    /\ Len(cerr) < MaxCalls
    /\ LET r == get_next_token(text, lexer)
       IN  /\ lexer' = r.lexer
           /\ IF r.exc = NoExc
              THEN /\ interp' = [interp EXCEPT !._current_token = r.token]
                   /\ cerr' = Append(cerr, CerrToken(r.token))
                   /\ mpc' = mpc
              ELSE /\ interp' = [interp EXCEPT !.exc = r.exc]
                   /\ cerr' = cerr
                   /\ mpc' = "thrown"
    /\ UNCHANGED <<cin, cinfail, text, cout>>

LexerNext == LexerCall

LexerSpec == LexerInitState /\ [][LexerNext]_vars

---------------------------------------------------------------------------
(* Where an evaluation stands *)

\* expression() has returned to main with the value interp.ret.
Returned ==
    mpc = "running" /\ interp.stack = <<>> /\ interp.exc = NoExc

\* An exception has left the constructor or expression().
Thrown ==
    mpc \in {"call", "running"} /\ interp.exc # NoExc

Finished == Returned \/ Thrown

---------------------------------------------------------------------------
(* The reference evaluator: the grammar read from the outside in.  A line  *)
(* is cut into items; an expression is split at its last + or - outside    *)
(* parentheses, a term at its last * or / outside parentheses, and what    *)
(* has neither is a number or a parenthesised expression.                  *)

\* The reference works on numbers of at most this many significant digits.
RefDigits == 9

RefBlank(c) == c \in {" ", "\t", "\n", "\r", "\f", "<VT>"}

RefNumeral(c) == c \in {"0", "1", "2", "3", "4", "5", "6", "7", "8", "9"}

RefSymbol(c) == c \in {"+", "-", "*", "/", "(", ")"}

RefDigit(c) ==
    CASE c = "0" -> 0 [] c = "1" -> 1 [] c = "2" -> 2 [] c = "3" -> 3
      [] c = "4" -> 4 [] c = "5" -> 5 [] c = "6" -> 6 [] c = "7" -> 7
      [] c = "8" -> 8 [] c = "9" -> 9

\* The length of the run of numerals that s starts with.
RefRun(s) ==
    CHOOSE n \in 0..Len(s) :
        /\ \A i \in 1..n : RefNumeral(s[i])
        /\ n < Len(s) => ~RefNumeral(s[n + 1])

RECURSIVE RefNumber(_)
\* The number a run of numerals denotes, most significant digit first.
RefNumber(run) ==
    IF run = <<>> THEN 0
    ELSE RefDigit(run[1]) * 10 ^ (Len(run) - 1) + RefNumber(Tail(run))

\* The run has more significant digits than the reference works on.
RefTooLong(run) ==
    \E i \in 1..Len(run) :
        /\ run[i] # "0"
        /\ \A j \in 1..(i - 1) : run[j] = "0"
        /\ Len(run) - i + 1 > RefDigits

RefItem(sym, num) == [sym |-> sym, num |-> num]

RECURSIVE RefItems(_)
\* The items of a line: "n" for a number, the character of a symbol, "?"
\* for what is no item.
RefItems(s) ==
    IF s = <<>> THEN <<>>
    ELSE IF RefBlank(s[1]) THEN RefItems(Tail(s))
    ELSE IF RefSymbol(s[1]) THEN <<RefItem(s[1], 0)>> \o RefItems(Tail(s))
    ELSE IF RefNumeral(s[1])
    THEN LET n == RefRun(s)
             run == SubSeq(s, 1, n)
         IN  (IF RefTooLong(run) THEN <<RefItem("?", 0)>>
              ELSE <<RefItem("n", RefNumber(run))>>)
             \o RefItems(SubSeq(s, n + 1, Len(s)))
    ELSE <<RefItem("?", 0)>>

\* The parentheses open before item i.
RefDepth(ts, i) ==
    Cardinality({j \in 1..(i - 1) : ts[j].sym = "("})
    - Cardinality({j \in 1..(i - 1) : ts[j].sym = ")"})

\* The last item outside parentheses whose symbol is in S, or 0.
RefLast(ts, S) ==
    LET I == {i \in 1..Len(ts) : ts[i].sym \in S /\ RefDepth(ts, i) = 0}
    IN  IF I = {} THEN 0 ELSE CHOOSE i \in I : \A j \in I : j <= i

RefInvalid == [kind |-> "invalid", v |-> 0]

RefDivZero == [kind |-> "divzero", v |-> 0]

RefValue(v) == [kind |-> "value", v |-> v]

\* The quotient q of a by b # 0 with a = q * b + r, |r| < |b| and r of the
\* sign of a.
RefQuotient(a, b) ==
    LET abs(x) == IF x < 0 THEN -x ELSE x
    IN  CHOOSE q \in -abs(a)..abs(a) :
            LET r == a - q * b
            IN  /\ abs(r) < abs(b)
                /\ (r = 0 \/ (r < 0) = (a < 0))

RefApply(op, l, r) ==
    IF l.kind = "invalid" \/ r.kind = "invalid" THEN RefInvalid
    ELSE IF l.kind = "divzero" \/ r.kind = "divzero" THEN RefDivZero
    ELSE CASE op = "+" -> RefValue(l.v + r.v)
           [] op = "-" -> RefValue(l.v - r.v)
           [] op = "*" -> RefValue(l.v * r.v)
           [] op = "/" -> IF r.v = 0 THEN RefDivZero
                          ELSE RefValue(RefQuotient(l.v, r.v))

RECURSIVE RefEval(_)
RefEval(ts) ==
    LET n == Len(ts)
        a == RefLast(ts, {"+", "-"})
        m == RefLast(ts, {"*", "/"})
        k == IF a # 0 THEN a ELSE m
    IN  IF k # 0
        THEN RefApply(ts[k].sym, RefEval(SubSeq(ts, 1, k - 1)),
                      RefEval(SubSeq(ts, k + 1, n)))
        ELSE IF n = 1 /\ ts[1].sym = "n" THEN RefValue(ts[1].num)
        ELSE IF n >= 2 /\ ts[1].sym = "(" /\ ts[n].sym = ")"
        THEN RefEval(SubSeq(ts, 2, n - 1))
        ELSE RefInvalid

\* What the reference makes of a line.
Reference(line) == RefEval(RefItems(line))

---------------------------------------------------------------------------
(* The earlier variants calc1.cc, calc2.cc and calc4.cc: what expression() *)
(* does on a line, from the construction of the Interpreter to the return  *)
(* or the throw.  The operands of the lines of the model are small, so the *)
(* arithmetic on long does not overflow; a run of digits may.              *)

\* expression() has returned v.
VariantValue(v) == [kind |-> "value", ret |-> v, exc |-> NoExc]

\* An exception has left expression() or the constructor.
VariantThrow(e) == [kind |-> "exception", ret |-> 0, exc |-> e]

\* The behaviour is undefined: the build decides whether a value comes
\* back, and which.
VariantUndefined == [kind |-> "undefined", ret |-> 0, exc |-> NoExc]

RECURSIVE calc1_run(_, _)
\* calc1.cc, the loop of get_next_token over the digits from _pos on;
\* _text[_text.length()] is '\0', which ends it.
calc1_run(txt, pos) ==
    IF pos < Len(txt) /\ isdigit(txt[pos + 1])
    THEN <<txt[pos + 1]>> \o calc1_run(txt, pos + 1)
    ELSE <<>>

\* Interpreter::get_next_token of calc1.cc: no blanks, and total is summed
\* up in a long, which overflows (undefined) where stol would throw.
calc1_get_next_token(txt, pos) ==
    IF pos >= Len(txt)
    THEN [_pos |-> pos, token |-> Token("ENDOFFILE", 0), exc |-> NoExc,
          undefined |-> FALSE]
    ELSE LET current_char == txt[pos + 1]
             run == calc1_run(txt, pos)
         IN  IF isdigit(current_char)
             THEN [_pos |-> pos + Len(run),
                   token |-> Token("INTEGER", IF OutOfRange(run) THEN 0
                                              ELSE DecimalValue(run)),
                   exc |-> NoExc, undefined |-> OutOfRange(run)]
             ELSE IF current_char = "+"
             THEN [_pos |-> pos + 1, token |-> Token("PLUS", 43),
                   exc |-> NoExc, undefined |-> FALSE]
             ELSE [_pos |-> pos, token |-> NoToken,
                   exc |-> ThrowStream(<<"Error parsing input. Got: ",
                                         current_char>>),
                   undefined |-> FALSE]

\* Interpreter::eat of calc1.cc on the token r, the result of the call of
\* get_next_token before it: the next such result.
calc1_eat(txt, r, token_type) ==
    IF r.undefined \/ r.exc # NoExc THEN r
    ELSE IF r.token.type = token_type
    THEN calc1_get_next_token(txt, r._pos)
    ELSE [r EXCEPT !.exc = ThrowStream(<<"Error parsing input. Wanted: ",
                                         token_type>>)]

\* Interpreter::expression of calc1.cc: INTEGER PLUS INTEGER, and one more
\* token read by the last eat, which nothing looks at.
calc1_expression(txt) ==
    LET left  == calc1_get_next_token(txt, 0)
        op    == calc1_eat(txt, left, "INTEGER")
        right == calc1_eat(txt, op, "PLUS")
        last  == calc1_eat(txt, right, "INTEGER")
    IN  IF last.undefined THEN VariantUndefined
        ELSE IF last.exc # NoExc THEN VariantThrow(last.exc)
        ELSE VariantValue(left.token.value + right.token.value)

\* Interpreter::advance, skip_whitespace and integer of calc2.cc are those
\* of calc5's Lexer.
calc2_advance(txt, lx) == advance(txt, lx)

calc2_skip_whitespace(txt, lx) == skip_whitespace(txt, lx)

calc2_integer(txt, lx) == integer(txt, lx)

calc2_SingleChar(c) ==
    CASE c = "+" -> Token("PLUS", 43)
      [] c = "-" -> Token("MINUS", 45)
      [] c = "*" -> Token("TIMES", 42)
      [] c = "/" -> Token("DIVIDE", 47)
      [] OTHER   -> NoToken

\* Interpreter::get_next_token of calc2.cc.  After skip_whitespace the
\* loop body goes on, without a test for '\0': blanks at the end of the
\* line end in the throw.
calc2_get_next_token(txt, lx) ==
    IF lx._current_char # NUL
    THEN LET l == IF isspace(lx._current_char)
                  THEN calc2_skip_whitespace(txt, lx) ELSE lx
             c == l._current_char
         IN  IF isdigit(c)
             THEN LET r == calc2_integer(txt, l)
                  IN  [lexer |-> r.lexer,
                       token |-> IF r.exc = NoExc
                                 THEN Token("INTEGER", r.value) ELSE NoToken,
                       exc |-> r.exc]
             ELSE IF calc2_SingleChar(c) # NoToken
             THEN [lexer |-> calc2_advance(txt, l),
                   token |-> calc2_SingleChar(c), exc |-> NoExc]
             ELSE [lexer |-> l, token |-> NoToken,
                   exc |-> ThrowStream(<<"Error parsing input. Got: ", c>>)]
    ELSE [lexer |-> lx, token |-> Token("ENDOFFILE", 0), exc |-> NoExc]

\* Interpreter::eat of calc2.cc on the token r.
calc2_eat(txt, r, token_type) ==
    IF r.exc # NoExc THEN r
    ELSE IF r.token.type = token_type
    THEN calc2_get_next_token(txt, r.lexer)
    ELSE [r EXCEPT !.exc = ThrowStream(<<"Error parsing input. Wanted: ",
                                         token_type>>)]

\* add, subtract, multiply and divide of calc2.cc, after their eat.
calc2_apply(type, left_value, right_value) ==
    CASE type = "PLUS"   -> left_value + right_value
      [] type = "MINUS"  -> left_value - right_value
      [] type = "TIMES"  -> left_value * right_value
      [] type = "DIVIDE" -> Quotient(left_value, right_value)

RECURSIVE calc2_while(_, _, _)
\* The loop of Interpreter::expression of calc2.cc with the lookahead r:
\* every operator is applied to the result so far as it comes.
calc2_while(txt, r, result) ==
    IF r.exc # NoExc THEN VariantThrow(r.exc)
    ELSE IF r.token.type = "ENDOFFILE" THEN VariantValue(result)
    ELSE IF r.token.type \in {"MINUS", "PLUS", "TIMES", "DIVIDE"}
    THEN LET right == calc2_eat(txt, r, r.token.type)
             next  == calc2_eat(txt, right, "INTEGER")
         IN  IF next.exc # NoExc THEN VariantThrow(next.exc)
             ELSE IF r.token.type = "DIVIDE" /\ right.token.value = 0
             THEN VariantThrow(ThrowLiteral(<<"Division by zero">>))
             ELSE calc2_while(txt, next,
                              calc2_apply(r.token.type, result,
                                          right.token.value))
    ELSE VariantThrow(ThrowStream(
             <<"Error parsing input. Wanted operator, got: ", r.token.type>>))

\* Interpreter::expression of calc2.cc.
calc2_expression(txt) ==
    LET left == calc2_get_next_token(txt, LexerInit(txt))
        next == calc2_eat(txt, left, "INTEGER")
    IN  IF next.exc # NoExc THEN VariantThrow(next.exc)
        ELSE calc2_while(txt, next, left.token.value)

calc4_SingleChar(c) ==
    CASE c = "*" -> Token("MUL", 42)
      [] c = "/" -> Token("DIV", 47)
      [] OTHER   -> NoToken

RECURSIVE calc4_get_next_token(_, _)
\* Lexer::get_next_token of calc4.cc: that of calc5 with two operators.
calc4_get_next_token(txt, lx) ==
    LET c == lx._current_char
    IN  IF c # NUL
        THEN IF isspace(c)
             THEN calc4_get_next_token(txt, skip_whitespace(txt, lx))
             ELSE IF isdigit(c)
             THEN LET r == integer(txt, lx)
                  IN  [lexer |-> r.lexer,
                       token |-> IF r.exc = NoExc
                                 THEN Token("INTEGER", r.value) ELSE NoToken,
                       exc |-> r.exc]
             ELSE IF calc4_SingleChar(c) # NoToken
             THEN [lexer |-> advance(txt, lx), token |-> calc4_SingleChar(c),
                   exc |-> NoExc]
             ELSE [lexer |-> lx, token |-> NoToken,
                   exc |-> ThrowStream(<<"Error parsing input. Got: ", c>>)]
        ELSE [lexer |-> lx, token |-> Token("ENDOFFILE", 0), exc |-> NoExc]

\* Interpreter::eat of calc4.cc on the token r.
calc4_eat(txt, r, token_type) ==
    IF r.exc # NoExc THEN r
    ELSE IF r.token.type = token_type
    THEN calc4_get_next_token(txt, r.lexer)
    ELSE [r EXCEPT !.exc = ThrowStream(<<"Error parsing input. Wanted: ",
                                         token_type>>)]

RECURSIVE calc4_while(_, _, _)
\* The loop of Interpreter::expression of calc4.cc with the lookahead r.
\* result /= factor() has no test of the divisor: a division by zero is
\* undefined.
calc4_while(txt, r, result) ==
    IF r.exc # NoExc THEN VariantThrow(r.exc)
    ELSE IF r.token.type \in {"MUL", "DIV"}
    THEN LET factor == calc4_eat(txt, r, r.token.type)
             next   == calc4_eat(txt, factor, "INTEGER")
         IN  IF next.exc # NoExc THEN VariantThrow(next.exc)
             ELSE IF r.token.type = "MUL"
             THEN calc4_while(txt, next, result * factor.token.value)
             ELSE IF factor.token.value = 0 THEN VariantUndefined
             ELSE calc4_while(txt, next,
                              Quotient(result, factor.token.value))
    ELSE VariantValue(result)

\* Interpreter::Interpreter and Interpreter::expression of calc4.cc.
calc4_expression(txt) ==
    LET factor == calc4_get_next_token(txt, LexerInit(txt))
        next   == calc4_eat(txt, factor, "INTEGER")
    IN  IF next.exc # NoExc THEN VariantThrow(next.exc)
        ELSE calc4_while(txt, next, factor.token.value)

\* The earlier variants on a line.
EarlierVariants(txt) ==
    {calc1_expression(txt), calc2_expression(txt), calc4_expression(txt)}

---------------------------------------------------------------------------
(* The claims *)

\* The line being evaluated is a valid expression without a division by
\* zero, with the value the reference gives it.
ValidLine == Reference(text).kind = "value"

ReturnedReference == Returned /\ interp.ret = Reference(text).v

\* The input not yet consumed: the characters from the cursor on, and the
\* lookahead unless it is ENDOFFILE.
Unconsumed ==
    (Len(text) - lexer._pos)
    + (IF interp._current_token.type = "ENDOFFILE" THEN 0 ELSE 1)

\* What a frame can still do without consuming input.
Weight(f) ==
    CASE f.pc = "while" -> 1
      [] f.pc = "fold"  -> 2
      [] f.pc = "paren" -> 1
      [] f.pc = "begin" -> CASE f.fn = "factor"     -> 1
                             [] f.fn = "term"       -> 4
                             [] f.fn = "expression" -> 7

RECURSIVE StackWeight(_)
StackWeight(st) ==
    IF st = <<>> THEN 0 ELSE Weight(Head(st)) + StackWeight(Tail(st))

\* A natural number that every step of an evaluation makes smaller.
Measure == 10 * Unconsumed + StackWeight(interp.stack)

\* expression() has been called and has neither returned nor thrown.
Evaluating == mpc = "running" /\ ~Finished

\* The top frame is at a statement of its function, so that one of the
\* steps of the Interpreter is enabled.
HasStep ==
    \/ Running("expression", "begin") \/ Running("expression", "fold")
    \/ Running("expression", "while")
    \/ Running("term", "begin") \/ Running("term", "fold")
    \/ Running("term", "while")
    \/ Running("factor", "begin") \/ Running("factor", "paren")

\* C1: a line that is a valid expression of the grammar, with no division
\* whose right operand is zero, is evaluated to the end, and expression()
\* returns the value of the reference evaluator (precedence of * and / over
\* + and -, grouping from the left, division truncated toward zero).  The
\* evaluation of such a line finishes only with that value returned; until
\* then it always has a next step, and every step makes a natural number
\* smaller, so it does finish.
C1_FaithfulCalculator ==
    /\ [](Finished /\ ValidLine => ReturnedReference)
    /\ [](Evaluating /\ ValidLine => HasStep)
    /\ [][Evaluating /\ ValidLine => Measure >= 0 /\ Measure' < Measure]_vars

\* C1 witness: expression() has returned 17 for "14 + 2 * 3 - 6 / 2".
C1_Witness ==
    /\ Returned
    /\ text = Ex_Precedence
    /\ ValidLine
    /\ interp.ret = 17
    /\ Reference(text).v = 17

\* a op b as the reference has it.
RefOp(op, a, b) == RefApply(op, a, b)

Additive == {"+", "-"}

Multiplicative == {"*", "/"}

SameLevel(o1, o2) ==
    (o1 \in Additive /\ o2 \in Additive)
    \/ (o1 \in Multiplicative /\ o2 \in Multiplicative)

\* (a o1 b) o2 c
FromLeft(a, o1, b, o2, c) ==
    RefOp(o2, RefOp(o1, RefValue(a), RefValue(b)), RefValue(c))

\* a o1 (b o2 c)
FromRight(a, o1, b, o2, c) ==
    RefOp(o1, RefValue(a), RefOp(o2, RefValue(b), RefValue(c)))

\* The three-operand lines with what they are grouped from the left and
\* from the right.
Cases ==
    { [o1 |-> o1, o2 |-> o2,
       chain |-> Chain(a, o1, b, o2, c),
       groupLeft |-> GroupLeft(a, o1, b, o2, c),
       groupRight |-> GroupRight(a, o1, b, o2, c),
       fromLeft |-> FromLeft(a, o1, b, o2, c),
       fromRight |-> FromRight(a, o1, b, o2, c)] :
      <<a, o1, b, o2, c>> \in
        Operands \X Operators \X Operands \X Operators \X Operands }

SameLevelCases == {e \in Cases : SameLevel(e.o1, e.o2)}

\* expression() has returned what e is, when e is a value.
ReturnsValue(e) == e.kind = "value" => Returned /\ interp.ret = e.v

\* C2: a chain of operators of one precedence level is folded from the
\* left: "a o1 b o2 c" with o1, o2 both of + - or both of * / evaluates as
\* (a o1 b) o2 c wherever that has a value, so "a - b + c" is (a - b) + c
\* and "a / b / c" is (a / b) / c; "7 - 3 + 2 - 1" yields 5 and
\* "10 / 2 / 5" yields 1.
C2_LeftToRight ==
    Finished =>
        /\ \A e \in SameLevelCases :
             text = e.chain => ReturnsValue(e.fromLeft)
        /\ text = Ex_LeftAssoc => Returned /\ interp.ret = 5
        /\ text = Ex_DivChain => Returned /\ interp.ret = 1

\* C2 witness: "3 - 2 + 1" has returned (3 - 2) + 1 = 2, not 3 - (2 + 1).
C2_Witness ==
    /\ Returned
    /\ text = Chain(3, "-", 2, "+", 1)
    /\ interp.ret = 2
    /\ FromRight(3, "-", 2, "+", 1) = RefValue(0)

\* C3: * and / bind before + and - unless parentheses group otherwise.
\* "a o1 b o2 c" with o2 of * / and o1 of + - evaluates as a o1 (b o2 c),
\* and with o1 of * / and o2 of + - as (a o1 b) o2 c; a parenthesised
\* group is evaluated as the parentheses say.  When term() returns to
\* expression() its * and / are all applied (the lookahead is neither), and
\* when the expression in parentheses returns to factor() it is a single
\* value with no operator of its own left.  "14 + 2 * 3 - 6 / 2" yields 17
\* and "7 * (2 + 3)" yields 35.
C3_Precedence ==
    /\ Running("expression", "fold")
         => interp._current_token.type \notin {"MUL", "DIV"}
    /\ Running("factor", "paren")
         => interp._current_token.type \notin {"PLUS", "MINUS", "MUL", "DIV"}
    /\ Finished =>
        /\ \A e \in Cases :
             /\ (e.o1 \in Additive /\ e.o2 \in Multiplicative
                   /\ text = e.chain) => ReturnsValue(e.fromRight)
             /\ (e.o1 \in Multiplicative /\ e.o2 \in Additive
                   /\ text = e.chain) => ReturnsValue(e.fromLeft)
             /\ text = e.groupLeft => ReturnsValue(e.fromLeft)
             /\ text = e.groupRight => ReturnsValue(e.fromRight)
        /\ text = Ex_Precedence => Returned /\ interp.ret = 17
        /\ text = Ex_Paren => Returned /\ interp.ret = 35

\* C3 witness: "7 * (2 + 3)" has returned 35.
C3_Witness ==
    /\ Returned
    /\ text = Ex_Paren
    /\ interp.ret = 35

DivisionByZero == ThrowLiteral(<<"Division by zero">>)

\* term() holds a right operand of / that is zero.
ZeroDivisor ==
    /\ Running("term", "fold")
    /\ Top(interp).token = "DIV"
    /\ interp.ret = 0

\* C4: when the right operand of a / evaluates to zero, the next step
\* throws "Division by zero" without dividing and without a value being
\* written; the error reaches main, which writes that message and no value;
\* and a valid line whose evaluation meets such a division finishes with
\* that error.
C4_DivisionByZero ==
    /\ [][ZeroDivisor
            => /\ interp'.exc = DivisionByZero
               /\ interp'.stack = <<>>
               /\ cout' = cout]_vars
    /\ [][interp.exc = DivisionByZero
            => /\ mpc' = "exit"
               /\ cout' = cout
               /\ cerr' = Append(cerr, CerrError(<<"Division by zero">>))]_vars
    /\ [](Finished /\ Reference(text).kind = "divzero"
            => Thrown /\ interp.exc = DivisionByZero)

\* C4 witness: "1 / (2 - 2)" has thrown the division by zero.
C4_Witness ==
    /\ Thrown
    /\ text = GroupRight(1, "/", 2, "-", 2)
    /\ interp.exc = DivisionByZero
    /\ Reference(text).kind = "divzero"

\* C5: an evaluation yields a value only if the lookahead is ENDOFFILE when
\* the top-level expression() returns, so that a value is written only for
\* the lines of the grammar.
C5_WholeLineConsumed ==
    Returned =>
        /\ interp._current_token.type = "ENDOFFILE"
        /\ Reference(text).kind # "invalid"

\* The message m has the part p.
Mentions(m, p) == \E i \in 1..Len(m) : m[i] = p

\* get_next_token has thrown at a character that starts no token.
LexicalError ==
    /\ Thrown
    /\ interp.exc.type = "const char*"
    /\ interp.exc.msg[1] = "Error parsing input. Got: "

\* C6: at a character that is no digit, no blank and none of + - * / ( )
\* get_next_token fails with an error that identifies the character and
\* its position in the line, whatever main reads of it, and the cursor is
\* left on that character.
C6_LexicalErrorIdentified ==
    LexicalError =>
        /\ lexer._pos < Len(text)
        /\ lexer._current_char = text[lexer._pos + 1]
        /\ ~isdigit(lexer._current_char)
        /\ ~isspace(lexer._current_char)
        /\ SingleChar(lexer._current_char) = NoToken
        /\ \A m \in Readable(interp.exc) :
               /\ Mentions(m, lexer._current_char)
               /\ Mentions(m, ToString(lexer._pos))

\* eat has thrown at a lookahead of another type than the one wanted.
SyntaxError ==
    /\ Thrown
    /\ interp.exc.type = "const char*"
    /\ interp.exc.msg[1] = "Error parsing input. Wanted: "

\* C7: when the lookahead has not the type a rule requires, eat fails with
\* an error that carries the type expected and the type observed, whatever
\* main reads of it; "(1 + 2" fails expecting RPAREN with ENDOFFILE found.
C7_SyntaxErrorCarriesBoth ==
    SyntaxError =>
        \A m \in Readable(interp.exc) :
            /\ \E t \in TOKENTYPE \ {interp._current_token.type} :
                   Mentions(m, t)
            /\ Mentions(m, interp._current_token.type)
            /\ text = Ex_Unbalanced
                   => Mentions(m, "RPAREN") /\ Mentions(m, "ENDOFFILE")

\* C9: the evaluation of a line ends in a value or in an error that main's
\* handler receives; nothing else leaves the evaluation, also for a digit
\* run too large for a long.
C9_OneOutcome ==
    /\ Thrown => interp.exc.type = "const char*"
    /\ mpc # "terminate"

\* The blank at i separates two runs of numerals: the nearest characters
\* that are not blank, before and after, are numerals.
Separates(line, i) ==
    /\ \E j \in 1..(i - 1) :
           /\ RefNumeral(line[j])
           /\ \A k \in (j + 1)..(i - 1) : RefBlank(line[k])
    /\ \E j \in (i + 1)..Len(line) :
           /\ RefNumeral(line[j])
           /\ \A k \in (i + 1)..(j - 1) : RefBlank(line[k])

RECURSIVE SqueezeFrom(_, _)
\* The line from its character i on, without its blanks, except that the
\* first blank of a stretch that separates two numbers stays, as a space.
SqueezeFrom(line, i) ==
    IF i > Len(line) THEN <<>>
    ELSE IF ~RefBlank(line[i]) THEN <<line[i]>> \o SqueezeFrom(line, i + 1)
    ELSE IF Separates(line, i) /\ ~RefBlank(line[i - 1])
    THEN <<" ">> \o SqueezeFrom(line, i + 1)
    ELSE SqueezeFrom(line, i + 1)

\* Two lines differ only in blanks before, between and after their tokens
\* exactly when they have the same squeezed line.
Squeeze(line) == SqueezeFrom(line, 1)

\* What the evaluation in the state has come to: the value or the
\* exception, and the tokens written to cerr.
Outcome ==
    [ret |-> IF Returned THEN interp.ret ELSE 0,
     exc |-> interp.exc,
     printed |-> cerr]

\* C8: two lines that differ only in blanks before the first token, between
\* tokens or after the last one (none inside a number, and with some blank
\* left between two numbers) give the same tokens and the same outcome,
\* value or error: the evaluation of the line read ends as the evaluation
\* of its squeezed line does, token for token.
C8_WhitespaceInsensitive ==
    (Finished /\ ~cinfail) =>
        LET o == Evaluate(Squeeze(text))
        IN  /\ Outcome.ret = o.ret
            /\ Outcome.exc = o.exc
            /\ Outcome.printed = CerrTokens(o.printed)

\* C8 witness: the line of tabs and spaces around "12*(3-1)" has returned
\* 24, and its squeezed line is another line.
C8_Witness ==
    /\ Returned
    /\ text = Ex_Tabs
    /\ Squeeze(text) = <<"1", "2", "*", "(", "3", "-", "1", ")">>
    /\ interp.ret = 24
    /\ Len(cerr) = 8

\* C10: once get_next_token has returned ENDOFFILE, a later call on the
\* same Lexer returns ENDOFFILE again and leaves _pos and _current_char as
\* they are.
C10_EndOfFileAgain ==
    [][(mpc = "lexer" /\ interp._current_token.type = "ENDOFFILE")
         => /\ interp'._current_token.type = "ENDOFFILE"
            /\ interp'.exc = NoExc
            /\ lexer' = lexer
            /\ cerr' = Append(cerr, CerrToken(Token("ENDOFFILE", 0)))]_vars

\* C10 witness: a Lexer over a line with a token has returned ENDOFFILE
\* three times in a row, the cursor at the end of the line.
C10_Witness ==
    /\ mpc = "lexer"
    /\ Len(cerr) >= 4
    /\ \A i \in (Len(cerr) - 2)..Len(cerr) : cerr[i].type = "ENDOFFILE"
    /\ cerr[Len(cerr) - 3].type # "ENDOFFILE"
    /\ lexer._pos = Len(text)

\* What C11 asks of the outcome o of an earlier variant on the line calc5
\* has evaluated: a value o returns is the value calc5 has returned.  An
\* undefined outcome is left aside: only the values the code fixes count.
Subsumed(o) == o.kind = "value" => Returned /\ interp.ret = o.ret

\* C11: on every line on which expression() of calc1, calc2 or calc4
\* returns a value, expression() of calc5 returns the same value.
C11_SubsumesEarlierVariants ==
    Finished => \A o \in EarlierVariants(text) : Subsumed(o)

\* The lines '(0 - a) / b' with b > 0 and the example, each with the
\* quotient truncated toward zero.
NegativeDividends ==
    {[line |-> GroupLeft(0, "-", a, "/", b), v |-> -(a \div b)] :
       <<a, b>> \in Operands \X (1..MaxVal)}
    \cup {[line |-> Ex_NegQuotient, v |-> -3]}

\* C12: the division truncates toward zero also when the left operand is
\* negative: for every a and every b > 0, '(0 - a) / b' returns -(a / b),
\* and '(1 - 8) / 2' returns -3.
C12_TruncatesTowardZero ==
    Finished =>
      \A e \in NegativeDividends :
        text = e.line => Returned /\ interp.ret = e.v

\* C12 witness: expression() has returned -3 for '(1 - 8) / 2', where
\* rounding down gives -4.
C12_Witness ==
    /\ Returned
    /\ text = Ex_NegQuotient
    /\ interp.ret = -3

\* The cursor lx is on the line txt or at its end, and _current_char is the
\* character it addresses, the sentinel at the end.
CursorOK(txt, lx) ==
    /\ 0 <= lx._pos
    /\ lx._pos <= Len(txt)
    /\ lx._current_char = IF lx._pos < Len(txt) THEN txt[lx._pos + 1] ELSE NUL

RECURSIVE Advanced(_, _)
\* The cursors that calls of advance lead to from lx: every call of advance
\* in the Lexer is made with _current_char other than the sentinel.
Advanced(txt, lx) ==
    IF lx._current_char # NUL
    THEN {lx} \cup Advanced(txt, advance(txt, lx))
    ELSE {lx}

\* C13: in every state of a Lexer 0 <= _pos <= the length of the text and
\* _current_char is the character of the text at _pos, the sentinel when
\* _pos is at the end, also within a call, after each advance, and for the
\* empty line; and no call of get_next_token lowers _pos.
C13_CursorInvariant ==
    /\ [](\A lx \in Advanced(text, lexer) : CursorOK(text, lx))
    /\ [][lexer'._pos >= lexer._pos]_vars

\* C13 witness: calls of get_next_token have moved the cursor onto a later
\* character of the line, with more of the line to come.
C13_Witness ==
    /\ mpc = "lexer"
    /\ cerr # <<>>
    /\ 0 < lexer._pos
    /\ lexer._pos < Len(text)
    /\ lexer._current_char = text[lexer._pos + 1]

\* The Lexer and the Interpreter main has constructed are those of the
\* line alone, and so is the outcome of expression().
EvaluatedAlone ==
    /\ mpc = "call" =>
          LET c == InterpreterInit(text, LexerInit(text))
          IN  lexer = c.lexer /\ interp = c.interp
    /\ Finished =>
          /\ interp.exc = Evaluate(text).exc
          /\ Returned => interp.ret = Evaluate(text).ret

\* What main writes at the end of an evaluation is the value of the line,
\* or its error as far as the handler can read it.
ReportsOutcome ==
    /\ Returned /\ mpc' = "while"
          => cout' = Append(cout, Result(Evaluate(text).ret))
    /\ Thrown /\ mpc' = "exit"
          => \E m \in Readable(Evaluate(text).exc) :
                cerr' = Append(cerr, CerrError(m))

\* main has left the loop.  (std::terminate on a std::out_of_range is C9's
\* case.)
LoopLeft == mpc = "exit"

\* C14: the read loop evaluates every line of the input with a fresh Lexer
\* and Interpreter and reports the line's value or error; the outcome is
\* that of the line alone, whatever lines came before it, lines that ended
\* in an error included: the loop is not left while a line is left to read.
C14_EveryLineAlone ==
    /\ []EvaluatedAlone
    /\ [][ReportsOutcome]_vars
    /\ [](LoopLeft => cin = <<>>)

\* An iteration of the loop of expression() or of term() begins, or
\* factor() is called.
IterationOrFactor ==
    \/ /\ Running("expression", "while")
       /\ interp._current_token.type \in {"PLUS", "MINUS"}
    \/ /\ Running("term", "while")
       /\ interp._current_token.type \in {"MUL", "DIV"}
    \/ Running("factor", "begin")

\* The step has consumed the lookahead through eat: get_next_token has
\* returned one more token, and less of the line is left.
Eaten ==
    /\ Len(cerr') = Len(cerr) + 1
    /\ cerr'[Len(cerr')].line = "Token"
    /\ Unconsumed' < Unconsumed

\* The step has got a token other than ENDOFFILE from get_next_token.
TokenReturned ==
    /\ mpc \in {"construct", "running"}
    /\ Len(cerr') = Len(cerr) + 1
    /\ cerr'[Len(cerr')].line = "Token"
    /\ cerr'[Len(cerr')].type # "ENDOFFILE"

\* C15: the evaluation of any line, valid or not, finishes with a value or
\* an error.  Until it has finished it has a next step, and every step
\* makes a natural number smaller, so that no state comes again; every
\* iteration of the loops of expression() and term() and every call of
\* factor() consumes a token through eat or throws; every token other than
\* ENDOFFILE that get_next_token returns moves the cursor forward.
C15_EvaluationFinishes ==
    /\ [](Evaluating => HasStep)
    /\ [][Evaluating => Measure >= 0 /\ Measure' < Measure]_vars
    /\ [][IterationOrFactor => interp'.exc # NoExc \/ Eaten]_vars
    /\ [][TokenReturned => lexer'._pos > lexer._pos]_vars

\* C15 witness: the evaluation of '(1 + 2', which is not an expression,
\* has finished with an error after the whole line was consumed.
C15_Witness ==
    /\ mpc = "running"
    /\ Thrown
    /\ text = Ex_Unbalanced
    /\ lexer._pos = Len(text)
    /\ interp._current_token.type = "ENDOFFILE"

=============================================================================
